---- MODULE Spec2Model ----
\* EventRoom association use case (EventRoomUseCase) over its persistence
\* gateway: create / get / listFiltered / delete of (EventId, RoomId) links.
EXTENDS Integers, Sequences, FiniteSets, TLC

\* ---------------------------------------------------------------- bounds
MaxId == 3           \* surrogate identifiers (BaseEntity.Id) are 1..MaxId
MaxPageNumber == 3   \* requested page numbers are 1..MaxPageNumber
MaxPageSize == 2     \* requested page sizes are 1..MaxPageSize

\* Guids are opaque values: the event and room identifiers that calls name.
\* Which of them identify an existing Event / Room is state (events, rooms).
EventIds == {"E1", "E2"}
RoomIds == {"R1", "R2"}

\* surrogate identifiers are ordered (the listing orders by Id)
Ids == 1..MaxId

\* null of a nullable Guid (Guid? EventId / Guid? RoomId) and of a reference
NULL == "null"

\* the Id of the null EventRoom reference
NoId == 0

\* ---------------------------------------------------------------- state
VARIABLES
    events,      \* the Event collection (ids of the events that exist)
    rooms,       \* the Room collection (ids of the rooms that exist)
    eventRooms,  \* the EventRoom collection: committed association records
    last,        \* the service call made by the most recent step and its outcome
    prev,        \* the call made by the step before that one, when it changed eventRooms
    procs        \* concurrent create calls in progress: position, arguments, gateway calls made

vars == <<events, rooms, eventRooms, last, prev, procs>>

\* ---------------------------------------------------------------- data model
\* EventRoom entity: surrogate Id (BaseEntity) and the composite key.
EventRoom(id, eventId, roomId) == [Id |-> id, EventId |-> eventId, RoomId |-> roomId]

\* an EventRoom as a query returns it: the stored record er with its
\* navigation properties Event and Room (NULL when not loaded)
Loaded(er, event, room) ==
    [Id |-> er.Id, EventId |-> er.EventId, RoomId |-> er.RoomId,
     Event |-> event, Room |-> room]

\* the null reference of type EventRoom
NullEventRoom == Loaded(EventRoom(NoId, NULL, NULL), NULL, NULL)

\* CreateEventRoomDTO
CreateEventRoomDTO == [EventId : EventIds, RoomId : RoomIds]

\* EventRoomFilterDTO: optional EventId / RoomId, PageNumber, PageSize.
\* PageNumber and PageSize are drawn from the documented range (>= 1).
EventRoomFilterDTO ==
    [EventId : EventIds \cup {NULL}, RoomId : RoomIds \cup {NULL},
     PageNumber : 1..MaxPageNumber, PageSize : 1..MaxPageSize]

\* _mapper.Map<EventRoomDTO>(entity): copies Id, EventId, RoomId and maps the
\* navigation properties Event and Room; null maps to null
MapEventRoomDTO(er) ==
    [Id |-> er.Id, EventId |-> er.EventId, RoomId |-> er.RoomId,
     Event |-> er.Event, Room |-> er.Room]

NullDTO == MapEventRoomDTO(NullEventRoom)

\* _mapper.Map<List<EventRoomDTO>>(list)
MapList(seq) == [i \in 1..Len(seq) |-> MapEventRoomDTO(seq[i])]

\* the value of a PaginatedResultDTO when the call returns none
NullPage ==
    [Items |-> <<>>, PageIndex |-> 0, PageSize |-> 0, TotalCount |-> 0,
     TotalPages |-> 0, HasPreviousPage |-> FALSE, HasNextPage |-> FALSE]

\* ---------------------------------------------------------------- gateway
\* IEventRepository.FindOneAsync(e => e.Id == id): the id found, or null
FindOneEvent(id) == IF id \in events THEN id ELSE NULL

\* IRoomRepository.FindOneAsync(r => r.Id == id): the id found, or null
FindOneRoom(id) == IF id \in rooms THEN id ELSE NULL

\* the records of store with the composite key (eventId, roomId)
ByIds(store, eventId, roomId) ==
    {er \in store : er.EventId = eventId /\ er.RoomId = roomId}

\* IRepository.FindOneAsync(er => er.EventId == eventId && er.RoomId == roomId):
\* first match or null
\* (no include: the navigation properties are not loaded)
FindOneAsync(store, eventId, roomId) ==
    LET m == ByIds(store, eventId, roomId)
    IN  IF m = {} THEN NullEventRoom
        ELSE Loaded(CHOOSE er \in m : \A o \in m : er.Id <= o.Id, NULL, NULL)

\* q.Include(er => er.Event).Include(er => er.Room): the navigation
\* properties resolved against the Event and Room collections
Include(er) == Loaded(er, FindOneEvent(er.EventId), FindOneRoom(er.RoomId))

\* EventRoomRepository.GetByIdsAsync(eventId, roomId): first match with
\* Event and Room included, or null
GetByIdsAsync(store, eventId, roomId) ==
    LET m == ByIds(store, eventId, roomId)
    IN  IF m = {} THEN NullEventRoom
        ELSE Include(CHOOSE er \in m : \A o \in m : er.Id <= o.Id)

\* IRepository.AddAsync(entity) committed by IUnitOfWork.SaveChangesAsync()
AddAsync(store, er) == store \cup {er}

\* IRepository.DeleteAsync(predicate on the composite key) committed by
\* IUnitOfWork.SaveChangesAsync(): every matching record is removed
DeleteAsync(store, eventId, roomId) == store \ ByIds(store, eventId, roomId)

\* the records of the set S in ascending order of Id (orderBy: er => er.Id)
RECURSIVE OrderById(_)
OrderById(S) ==
    IF S = {} THEN <<>>
    ELSE LET m == CHOOSE x \in S : \A y \in S : x.Id <= y.Id
         IN  <<m>> \o OrderById(S \ {m})

\* a sequence in reverse (descending: true)
Reverse(seq) == [i \in 1..Len(seq) |-> seq[Len(seq) + 1 - i]]

\* Skip(n) / Take(n) of a query
Skip(seq, n) == IF n >= Len(seq) THEN <<>> ELSE SubSeq(seq, n + 1, Len(seq))
Take(seq, n) == IF n >= Len(seq) THEN seq ELSE SubSeq(seq, 1, n)

\* ---------------------------------------------------------------- use case
\* variant of Predicate: the RoomId clause left out
Predicate_IgnoreRoom(er, filterDto) ==
    filterDto.EventId = NULL \/ er.EventId = filterDto.EventId

\* variant of Predicate: the two filter clauses joined by || instead of &&
Predicate_Or(er, filterDto) ==
    \/ (filterDto.EventId = NULL \/ er.EventId = filterDto.EventId)
    \/ (filterDto.RoomId = NULL \/ er.RoomId = filterDto.RoomId)

\* the filter predicate built by GetFilteredEventRoomsAsync
Predicate(er, filterDto) ==
    /\ (filterDto.EventId = NULL \/ er.EventId = filterDto.EventId)
    /\ (filterDto.RoomId = NULL \/ er.RoomId = filterDto.RoomId)

\* IRepository.GetCount(predicate)
GetCount(store, filterDto) ==
    Cardinality({er \in store : Predicate(er, filterDto)})

\* IRepository.GetAllAsync(predicate, page, count, include, orderBy: er.Id,
\* descending): at most count records starting at offset (page-1)*count of
\* the matching records in the order asked for, Event and Room included
GetAllAsync(store, filterDto, page, count, descending) ==
    LET ordered == OrderById({er \in store : Predicate(er, filterDto)})
        query == IF descending THEN Reverse(ordered) ELSE ordered
        rows == Take(Skip(query, (page - 1) * count), count)
    IN  [i \in 1..Len(rows) |-> Include(rows[i])]

\* variant of Descending: the listing asks for descending order
Descending_True == TRUE

\* the descending argument GetFilteredEventRoomsAsync passes to GetAllAsync
Descending == FALSE

\* variant of TotalPagesOf: integer division, without the (double) cast
TotalPagesOf_Floor(totalCount, pageSize) == totalCount \div pageSize

\* (int)Math.Ceiling(totalCount / (double)pageSize), for pageSize >= 1
TotalPagesOf(totalCount, pageSize) ==
    IF totalCount % pageSize = 0 THEN totalCount \div pageSize
    ELSE (totalCount \div pageSize) + 1

\* exceptions thrown by the use case, and the normal return
NoException == [error |-> "None", resource |-> "None"]
NotFoundException(resource) == [error |-> "NotFound", resource |-> resource]
ConflictException == [error |-> "Conflict", resource |-> "EventRoom"]

\* the record of one service call: operation, arguments, exception, return value
\* and the three collections as they were when the call was made
Call(op, eventId, roomId, pageNumber, pageSize, ex, dto, page) ==
    [op |-> op, EventId |-> eventId, RoomId |-> roomId,
     PageNumber |-> pageNumber, PageSize |-> pageSize,
     error |-> ex.error, resource |-> ex.resource, dto |-> dto, page |-> page,
     before |-> eventRooms, beforeEvents |-> events, beforeRooms |-> rooms]

NoCall ==
    [op |-> "none", EventId |-> NULL, RoomId |-> NULL, PageNumber |-> 0,
     PageSize |-> 0, error |-> "None", resource |-> "None", dto |-> NullDTO,
     page |-> NullPage, before |-> {}, beforeEvents |-> {}, beforeRooms |-> {}]

\* a call without its return value
Brief(c) == [op |-> c.op, EventId |-> c.EventId, RoomId |-> c.RoomId, error |-> c.error]

\* what prev becomes when a new call is made: the call in last when that call
\* changed the EventRoom collection (a successful create or delete)
Older(c) ==
    IF c.op \in {"create", "delete"} /\ c.error = "None"
    THEN Brief(c) ELSE Brief(NoCall)

\* variant of CreateValidation: step 1 (event existence) left out
CreateValidation_NoEventCheck(dto) ==
    IF FindOneRoom(dto.RoomId) = NULL THEN NotFoundException("Room")
    ELSE IF FindOneAsync(eventRooms, dto.EventId, dto.RoomId) # NullEventRoom
         THEN ConflictException
    ELSE NoException

\* variant of CreateValidation: step 2 (room existence) left out
CreateValidation_NoRoomCheck(dto) ==
    IF FindOneEvent(dto.EventId) = NULL THEN NotFoundException("Event")
    ELSE IF FindOneAsync(eventRooms, dto.EventId, dto.RoomId) # NullEventRoom
         THEN ConflictException
    ELSE NoException

\* variant of CreateValidation: step 3 (duplicate check) left out
CreateValidation_NoDuplicateCheck(dto) ==
    IF FindOneEvent(dto.EventId) = NULL THEN NotFoundException("Event")
    ELSE IF FindOneRoom(dto.RoomId) = NULL THEN NotFoundException("Room")
    ELSE NoException

\* variant of CreateValidation: the duplicate check made first
CreateValidation_DuplicateFirst(dto) ==
    IF FindOneAsync(eventRooms, dto.EventId, dto.RoomId) # NullEventRoom
    THEN ConflictException
    ELSE IF FindOneEvent(dto.EventId) = NULL THEN NotFoundException("Event")
    ELSE IF FindOneRoom(dto.RoomId) = NULL THEN NotFoundException("Room")
    ELSE NoException

\* CreateEventRoomAsync steps 1-3: the validation, in the order event, room,
\* duplicate; the exception thrown, or NoException when all three pass
CreateValidation(dto) ==
    IF FindOneEvent(dto.EventId) = NULL THEN NotFoundException("Event")
    ELSE IF FindOneRoom(dto.RoomId) = NULL THEN NotFoundException("Room")
    ELSE IF FindOneAsync(eventRooms, dto.EventId, dto.RoomId) # NullEventRoom
         THEN ConflictException
    ELSE NoException

\* CreateEventRoomAsync(dto): validation, then steps 4-6 (new entity, AddAsync
\* and SaveChangesAsync, re-read and map). The surrogate Id is any Id no
\* stored record carries; the write waits while all MaxId of them are in use.
CreateEventRoomAsync(dto) ==
    LET ex == CreateValidation(dto)
    IN  /\ IF ex # NoException
           THEN /\ eventRooms' = eventRooms
                /\ last' = Call("create", dto.EventId, dto.RoomId, 0, 0, ex,
                                NullDTO, NullPage)
           ELSE \E id \in Ids \ {er.Id : er \in eventRooms} :
                  LET stored == AddAsync(eventRooms,
                                         EventRoom(id, dto.EventId, dto.RoomId))
                      created == FindOneAsync(stored, dto.EventId, dto.RoomId)
                  IN  /\ eventRooms' = stored
                      /\ last' = Call("create", dto.EventId, dto.RoomId, 0, 0,
                                      NoException, MapEventRoomDTO(created),
                                      NullPage)
        /\ prev' = Older(last)
        /\ UNCHANGED <<events, rooms>>

\* variant of PaginatedResult: TotalCount taken from the returned page
\* (items.Count) instead of the count query
PaginatedResult_CountFromItems(store, filterDto) ==
    LET eventRoomList == GetAllAsync(store, filterDto, filterDto.PageNumber,
                                     filterDto.PageSize, Descending)
        items == MapList(eventRoomList)
        totalCount == Len(items)
        totalPages == TotalPagesOf(totalCount, filterDto.PageSize)
    IN  [Items |-> items,
         PageIndex |-> filterDto.PageNumber,
         PageSize |-> filterDto.PageSize,
         TotalCount |-> totalCount,
         TotalPages |-> totalPages,
         HasPreviousPage |-> filterDto.PageNumber > 1,
         HasNextPage |-> filterDto.PageNumber < totalPages]

\* variant of PaginatedResult: HasNextPage computed with <= instead of <
PaginatedResult_NextInclusive(store, filterDto) ==
    LET totalCount == GetCount(store, filterDto)
        eventRoomList == GetAllAsync(store, filterDto, filterDto.PageNumber,
                                     filterDto.PageSize, Descending)
        items == MapList(eventRoomList)
        totalPages == TotalPagesOf(totalCount, filterDto.PageSize)
    IN  [Items |-> items,
         PageIndex |-> filterDto.PageNumber,
         PageSize |-> filterDto.PageSize,
         TotalCount |-> totalCount,
         TotalPages |-> totalPages,
         HasPreviousPage |-> filterDto.PageNumber > 1,
         HasNextPage |-> filterDto.PageNumber <= totalPages]

\* variant of PaginatedResult: the page query is given the page after the
\* one asked for
PaginatedResult_PagePlusOne(store, filterDto) ==
    LET totalCount == GetCount(store, filterDto)
        eventRoomList == GetAllAsync(store, filterDto, filterDto.PageNumber + 1,
                                     filterDto.PageSize, Descending)
        items == MapList(eventRoomList)
        totalPages == TotalPagesOf(totalCount, filterDto.PageSize)
    IN  [Items |-> items,
         PageIndex |-> filterDto.PageNumber,
         PageSize |-> filterDto.PageSize,
         TotalCount |-> totalCount,
         TotalPages |-> totalPages,
         HasPreviousPage |-> filterDto.PageNumber > 1,
         HasNextPage |-> filterDto.PageNumber < totalPages]

\* the PaginatedResultDTO GetFilteredEventRoomsAsync builds over the
\* collection store: count query, page query, mapping, pagination info
PaginatedResult(store, filterDto) ==
    LET totalCount == GetCount(store, filterDto)
        eventRoomList == GetAllAsync(store, filterDto, filterDto.PageNumber,
                                     filterDto.PageSize, Descending)
        items == MapList(eventRoomList)
        totalPages == TotalPagesOf(totalCount, filterDto.PageSize)
    IN  [Items |-> items,
         PageIndex |-> filterDto.PageNumber,
         PageSize |-> filterDto.PageSize,
         TotalCount |-> totalCount,
         TotalPages |-> totalPages,
         HasPreviousPage |-> filterDto.PageNumber > 1,
         HasNextPage |-> filterDto.PageNumber < totalPages]

\* GetFilteredEventRoomsAsync(filterDto): the call returns the result built
\* over the committed collection
GetFilteredEventRoomsAsync(filterDto) ==
    LET result == PaginatedResult(eventRooms, filterDto)
    IN  /\ last' = Call("list", filterDto.EventId, filterDto.RoomId,
                        filterDto.PageNumber, filterDto.PageSize,
                        NoException, NullDTO, result)
        /\ prev' = Older(last)
        /\ UNCHANGED <<events, rooms, eventRooms>>

\* variant of GetEventRoomAsync: the lookup made with the two keys exchanged
GetEventRoomAsync_SwappedKeys(eventId, roomId) ==
    LET eventRoom == FindOneAsync(eventRooms, roomId, eventId)
    IN  /\ IF eventRoom = NullEventRoom
           THEN last' = Call("get", eventId, roomId, 0, 0,
                             NotFoundException("EventRoom"), NullDTO, NullPage)
           ELSE last' = Call("get", eventId, roomId, 0, 0, NoException,
                             MapEventRoomDTO(eventRoom), NullPage)
        /\ prev' = Older(last)
        /\ UNCHANGED <<events, rooms, eventRooms>>

\* variant of GetEventRoomAsync: the record found is removed from the
\* collection as it is returned
GetEventRoomAsync_DeletesFound(eventId, roomId) ==
    LET eventRoom == FindOneAsync(eventRooms, eventId, roomId)
    IN  /\ IF eventRoom = NullEventRoom
           THEN last' = Call("get", eventId, roomId, 0, 0,
                             NotFoundException("EventRoom"), NullDTO, NullPage)
           ELSE last' = Call("get", eventId, roomId, 0, 0, NoException,
                             MapEventRoomDTO(eventRoom), NullPage)
        /\ eventRooms' = DeleteAsync(eventRooms, eventId, roomId)
        /\ prev' = Older(last)
        /\ UNCHANGED <<events, rooms>>

\* GetEventRoomAsync(eventId, roomId)
GetEventRoomAsync(eventId, roomId) ==
    LET eventRoom == FindOneAsync(eventRooms, eventId, roomId)
    IN  /\ IF eventRoom = NullEventRoom
           THEN last' = Call("get", eventId, roomId, 0, 0,
                             NotFoundException("EventRoom"), NullDTO, NullPage)
           ELSE last' = Call("get", eventId, roomId, 0, 0, NoException,
                             MapEventRoomDTO(eventRoom), NullPage)
        /\ prev' = Older(last)
        /\ UNCHANGED <<events, rooms, eventRooms>>

\* variant of DeleteEventRoomAsync: DeleteAsync called with the two keys
\* exchanged
DeleteEventRoomAsync_SwappedKeys(eventId, roomId) ==
    LET exists == FindOneAsync(eventRooms, eventId, roomId)
    IN  /\ IF exists = NullEventRoom
           THEN /\ eventRooms' = eventRooms
                /\ last' = Call("delete", eventId, roomId, 0, 0,
                                NotFoundException("EventRoom"), NullDTO, NullPage)
           ELSE /\ eventRooms' = DeleteAsync(eventRooms, roomId, eventId)
                /\ last' = Call("delete", eventId, roomId, 0, 0, NoException,
                                NullDTO, NullPage)
        /\ prev' = Older(last)
        /\ UNCHANGED <<events, rooms>>

\* variant of DeleteEventRoomAsync: the existence check left out
DeleteEventRoomAsync_NoExistenceCheck(eventId, roomId) ==
    /\ eventRooms' = DeleteAsync(eventRooms, eventId, roomId)
    /\ last' = Call("delete", eventId, roomId, 0, 0, NoException,
                    NullDTO, NullPage)
    /\ prev' = Older(last)
    /\ UNCHANGED <<events, rooms>>

\* variant of DeleteEventRoomAsync: SaveChangesAsync left out, the removal
\* is never committed
DeleteEventRoomAsync_NoSave(eventId, roomId) ==
    LET exists == FindOneAsync(eventRooms, eventId, roomId)
    IN  /\ IF exists = NullEventRoom
           THEN last' = Call("delete", eventId, roomId, 0, 0,
                             NotFoundException("EventRoom"), NullDTO, NullPage)
           ELSE last' = Call("delete", eventId, roomId, 0, 0, NoException,
                             NullDTO, NullPage)
        /\ eventRooms' = eventRooms
        /\ prev' = Older(last)
        /\ UNCHANGED <<events, rooms>>

\* variant of DeleteEventRoomAsync: the delete cascades to the event when
\* its last association goes
DeleteEventRoomAsync_Cascade(eventId, roomId) ==
    LET exists == FindOneAsync(eventRooms, eventId, roomId)
        remaining == DeleteAsync(eventRooms, eventId, roomId)
    IN  /\ IF exists = NullEventRoom
           THEN /\ eventRooms' = eventRooms
                /\ events' = events
                /\ last' = Call("delete", eventId, roomId, 0, 0,
                                NotFoundException("EventRoom"), NullDTO, NullPage)
           ELSE /\ eventRooms' = remaining
                /\ events' = IF \E er \in remaining : er.EventId = eventId
                             THEN events ELSE events \ {eventId}
                /\ last' = Call("delete", eventId, roomId, 0, 0, NoException,
                                NullDTO, NullPage)
        /\ prev' = Older(last)
        /\ UNCHANGED rooms

\* variant of DeleteEventRoomAsync: the delete predicate tests the event only
DeleteEventRoomAsync_ByEventOnly(eventId, roomId) ==
    LET exists == FindOneAsync(eventRooms, eventId, roomId)
    IN  /\ IF exists = NullEventRoom
           THEN /\ eventRooms' = eventRooms
                /\ last' = Call("delete", eventId, roomId, 0, 0,
                                NotFoundException("EventRoom"), NullDTO, NullPage)
           ELSE /\ eventRooms' = {er \in eventRooms : er.EventId # eventId}
                /\ last' = Call("delete", eventId, roomId, 0, 0, NoException,
                                NullDTO, NullPage)
        /\ prev' = Older(last)
        /\ UNCHANGED <<events, rooms>>

\* DeleteEventRoomAsync(eventId, roomId): existence check, then DeleteAsync
\* and SaveChangesAsync
DeleteEventRoomAsync(eventId, roomId) ==
    LET exists == FindOneAsync(eventRooms, eventId, roomId)
    IN  /\ IF exists = NullEventRoom
           THEN /\ eventRooms' = eventRooms
                /\ last' = Call("delete", eventId, roomId, 0, 0,
                                NotFoundException("EventRoom"), NullDTO, NullPage)
           ELSE /\ eventRooms' = DeleteAsync(eventRooms, eventId, roomId)
                /\ last' = Call("delete", eventId, roomId, 0, 0, NoException,
                                NullDTO, NullPage)
        /\ prev' = Older(last)
        /\ UNCHANGED <<events, rooms>>

\* ---------------------------------------------------------------- owners of Event and Room
\* The Event and Room collections are owned outside this use case: their
\* owners add and remove records; no constraint ties them to eventRooms.
AddEvent(e) ==
    /\ e \notin events
    /\ events' = events \cup {e}
    /\ last' = NoCall /\ prev' = Brief(NoCall)
    /\ UNCHANGED <<rooms, eventRooms>>

RemoveEvent(e) ==
    /\ e \in events
    /\ events' = events \ {e}
    /\ last' = NoCall /\ prev' = Brief(NoCall)
    /\ UNCHANGED <<rooms, eventRooms>>

AddRoom(r) ==
    /\ r \notin rooms
    /\ rooms' = rooms \cup {r}
    /\ last' = NoCall /\ prev' = Brief(NoCall)
    /\ UNCHANGED <<events, eventRooms>>

RemoveRoom(r) ==
    /\ r \in rooms
    /\ rooms' = rooms \ {r}
    /\ last' = NoCall /\ prev' = Brief(NoCall)
    /\ UNCHANGED <<events, eventRooms>>

\* ---------------------------------------------------------------- concurrent calls
\* CreateEventRoomAsync awaits every gateway call: between two awaits another
\* request's call can run. Each request has its own scoped use case.
Procs == {"p1", "p2"}

\* a request that is not inside a call
Idle ==
    [op |-> "none", pc |-> "idle", EventId |-> NULL, RoomId |-> NULL, Id |-> NoId,
     log |-> <<>>, error |-> "None", resource |-> "None", dto |-> NullDTO,
     tracked |-> {}, removed |-> 0, with |-> {},
     PageNumber |-> 0, PageSize |-> 0, TotalCount |-> 0, page |-> NullPage]

\* the request p enters the call op at pc; `with` notes the requests whose
\* call is in progress at that time
Enter(p, op, pc, eventId, roomId) ==
    [q \in Procs |->
        IF q = p
        THEN [Idle EXCEPT !.op = op, !.pc = pc, !.EventId = eventId, !.RoomId = roomId,
                          !.with = {o \in Procs \ {p} : procs[o].pc \notin {"idle", "done"}}]
        ELSE [procs[q] EXCEPT !.with = @ \ {p}]]

\* the gateway call `entry` returned: p goes on to pc
Goto(p, pc, entry) ==
    [procs EXCEPT ![p].pc = pc, ![p].log = Append(@, entry)]

\* the gateway call `entry` returned and the call throws ex
Throw(p, ex, entry) ==
    [procs EXCEPT ![p].pc = "done", ![p].log = Append(@, entry),
                  ![p].error = ex.error, ![p].resource = ex.resource]

\* the creates that have not written yet
InFlight ==
    {p \in Procs : procs[p].pc \in {"findEvent", "findRoom", "findDuplicate", "add", "save"}}

\* the exception of a commit the storage rejects
DbUpdateException == [error |-> "DbUpdate", resource |-> "EventRoom"]

\* CreateEventRoomAsync is entered (a surrogate Id is left for its record)
CreateStart(p, dto) ==
    /\ procs[p].pc = "idle"
    /\ Cardinality(eventRooms) + Cardinality(InFlight) < MaxId
    /\ procs' = Enter(p, "create", "findEvent", dto.EventId, dto.RoomId)
    /\ UNCHANGED <<events, rooms, eventRooms>>

\* Step 1: validate Event exists
CreateFindEvent(p) ==
    /\ procs[p].pc = "findEvent"
    /\ procs' = IF FindOneEvent(procs[p].EventId) = NULL
                THEN Throw(p, NotFoundException("Event"), "Event:absent")
                ELSE Goto(p, "findRoom", "Event:found")
    /\ UNCHANGED <<events, rooms, eventRooms>>

\* variant of CreateFindRoom: the failure is noted but the call goes on
CreateFindRoom_Continues(p) ==
    /\ procs[p].pc = "findRoom"
    /\ procs' = IF FindOneRoom(procs[p].RoomId) = NULL
                THEN [Goto(p, "findDuplicate", "Room:absent")
                         EXCEPT ![p].error = "NotFound", ![p].resource = "Room"]
                ELSE Goto(p, "findDuplicate", "Room:found")
    /\ UNCHANGED <<events, rooms, eventRooms>>

\* Step 2: validate Room exists
CreateFindRoom(p) ==
    /\ procs[p].pc = "findRoom"
    /\ procs' = IF FindOneRoom(procs[p].RoomId) = NULL
                THEN Throw(p, NotFoundException("Room"), "Room:absent")
                ELSE Goto(p, "findDuplicate", "Room:found")
    /\ UNCHANGED <<events, rooms, eventRooms>>

\* Step 3: check for duplicate
CreateFindDuplicate(p) ==
    /\ procs[p].pc = "findDuplicate"
    /\ procs' = IF FindOneAsync(eventRooms, procs[p].EventId, procs[p].RoomId) # NullEventRoom
                THEN Throw(p, ConflictException, "EventRoom:found")
                ELSE Goto(p, "add", "EventRoom:absent")
    /\ UNCHANGED <<events, rooms, eventRooms>>

\* Steps 4-5: create the entity and AddAsync it (tracked, not yet stored)
CreateAdd(p) ==
    /\ procs[p].pc = "add"
    /\ procs' = Goto(p, "save", "AddAsync")
    /\ UNCHANGED <<events, rooms, eventRooms>>

\* Step 5: SaveChangesAsync; the storage rejects the commit or stores the
\* record under a fresh surrogate Id
CreateSaveStep(p, rejected) ==
    /\ procs[p].pc = "save"
    /\ IF rejected
       THEN /\ procs' = Throw(p, DbUpdateException, "SaveChangesAsync")
            /\ eventRooms' = eventRooms
       ELSE \E id \in Ids \ {er.Id : er \in eventRooms} :
               /\ eventRooms' = AddAsync(eventRooms,
                                    EventRoom(id, procs[p].EventId, procs[p].RoomId))
               /\ procs' = [Goto(p, "reread", "SaveChangesAsync") EXCEPT ![p].Id = id]
    /\ UNCHANGED <<events, rooms>>

\* variant of ViolatesPrimaryKey: the key is never enforced
ViolatesPrimaryKey_Never(store, eventId, roomId) == FALSE

\* Composite Primary Key (EventId, RoomId): a second record of a pair
ViolatesPrimaryKey(store, eventId, roomId) == ByIds(store, eventId, roomId) # {}

\* variant of CreateSave: the storage rejects a second record of a pair
CreateSave_Constrained(p) ==
    CreateSaveStep(p, ViolatesPrimaryKey(eventRooms, procs[p].EventId, procs[p].RoomId))

\* SaveChangesAsync with the service alone: the storage has no constraint
CreateSave(p) == CreateSaveStep(p, FALSE)

\* SaveChangesAsync on a storage that enforces the composite primary key
CreateSavePK(p) ==
    CreateSaveStep(p, ViolatesPrimaryKey(eventRooms, procs[p].EventId, procs[p].RoomId))

\* Step 6: retrieve and return
CreateReread(p) ==
    /\ procs[p].pc = "reread"
    /\ procs' = [Goto(p, "done", "FindOneAsync") EXCEPT ![p].dto =
                    MapEventRoomDTO(FindOneAsync(eventRooms, procs[p].EventId,
                                                 procs[p].RoomId))]
    /\ UNCHANGED <<events, rooms, eventRooms>>

\* DeleteEventRoomAsync is entered
DeleteStart(p, eventId, roomId) ==
    /\ procs[p].pc = "idle"
    /\ procs' = Enter(p, "delete", "deleteFind", eventId, roomId)
    /\ UNCHANGED <<events, rooms, eventRooms>>

\* Check existence
DeleteFind(p) ==
    /\ procs[p].pc = "deleteFind"
    /\ procs' = IF FindOneAsync(eventRooms, procs[p].EventId, procs[p].RoomId) = NullEventRoom
                THEN Throw(p, NotFoundException("EventRoom"), "EventRoom:absent")
                ELSE Goto(p, "deleteRemove", "EventRoom:found")
    /\ UNCHANGED <<events, rooms, eventRooms>>

\* DeleteAsync(predicate): the records matching now are marked for removal
DeleteRemove(p) ==
    /\ procs[p].pc = "deleteRemove"
    /\ procs' = [Goto(p, "deleteSave", "DeleteAsync") EXCEPT ![p].tracked =
                    ByIds(eventRooms, procs[p].EventId, procs[p].RoomId)]
    /\ UNCHANGED <<events, rooms, eventRooms>>

\* SaveChangesAsync of the delete: the marked records still stored are
\* removed; when a marked record has gone meanwhile the storage either
\* reports nothing or rejects the commit
DeleteSave(p) ==
    /\ procs[p].pc = "deleteSave"
    /\ eventRooms' = eventRooms \ procs[p].tracked
    /\ \/ procs' = [Goto(p, "done", "SaveChangesAsync") EXCEPT ![p].removed =
                       Cardinality(procs[p].tracked \cap eventRooms)]
       \/ /\ ~(procs[p].tracked \subseteq eventRooms)
          /\ procs' = Throw(p, DbUpdateException, "SaveChangesAsync")
    /\ UNCHANGED <<events, rooms>>

\* the commit of a successful CreateEventRoomAsync(dto) of another request
CreateCommit(dto) ==
    /\ CreateValidation(dto) = NoException
    /\ \E id \in Ids \ {er.Id : er \in eventRooms} :
          eventRooms' = AddAsync(eventRooms, EventRoom(id, dto.EventId, dto.RoomId))
    /\ UNCHANGED <<events, rooms>>

\* the commit of a successful DeleteEventRoomAsync of another request
DeleteCommit(eventId, roomId) ==
    /\ FindOneAsync(eventRooms, eventId, roomId) # NullEventRoom
    /\ eventRooms' = DeleteAsync(eventRooms, eventId, roomId)
    /\ UNCHANGED <<events, rooms>>

\* the filter of the listing p is in
FilterOfProc(p) ==
    [EventId |-> procs[p].EventId, RoomId |-> procs[p].RoomId,
     PageNumber |-> procs[p].PageNumber, PageSize |-> procs[p].PageSize]

\* the PaginatedResultDTO built from the mapped items and the count
PaginatedResultDTO(items, totalCount, filterDto) ==
    LET totalPages == TotalPagesOf(totalCount, filterDto.PageSize)
    IN  [Items |-> items,
         PageIndex |-> filterDto.PageNumber,
         PageSize |-> filterDto.PageSize,
         TotalCount |-> totalCount,
         TotalPages |-> totalPages,
         HasPreviousPage |-> filterDto.PageNumber > 1,
         HasNextPage |-> filterDto.PageNumber < totalPages]

\* GetFilteredEventRoomsAsync is entered
ListStart(p, filterDto) ==
    /\ procs[p].pc = "idle"
    /\ procs' = [Enter(p, "list", "listCount", filterDto.EventId, filterDto.RoomId)
                    EXCEPT ![p].PageNumber = filterDto.PageNumber,
                           ![p].PageSize = filterDto.PageSize]
    /\ UNCHANGED <<events, rooms, eventRooms>>

\* Get total count for pagination
ListCount(p) ==
    /\ procs[p].pc = "listCount"
    /\ procs' = [Goto(p, "listPage", "GetCount") EXCEPT ![p].TotalCount =
                    GetCount(eventRooms, FilterOfProc(p))]
    /\ UNCHANGED <<events, rooms, eventRooms>>

\* Get paginated results, map to DTOs, calculate pagination info
ListPage(p) ==
    /\ procs[p].pc = "listPage"
    /\ procs' = [Goto(p, "done", "GetAllAsync") EXCEPT ![p].page =
                    PaginatedResultDTO(
                        MapList(GetAllAsync(eventRooms, FilterOfProc(p),
                                            procs[p].PageNumber, procs[p].PageSize,
                                            Descending)),
                        procs[p].TotalCount, FilterOfProc(p))]
    /\ UNCHANGED <<events, rooms, eventRooms>>

\* the request ends: the result or the exception has gone to the caller
Return(p) ==
    /\ procs[p].pc = "done"
    /\ procs' = [procs EXCEPT ![p] = Idle]
    /\ UNCHANGED <<events, rooms, eventRooms>>

\* ---------------------------------------------------------------- specification
Init ==
    /\ events = {}
    /\ rooms = {}
    /\ eventRooms = {}
    /\ last = NoCall
    /\ prev = Brief(NoCall)
    /\ procs = [p \in Procs |-> Idle]

Create == (\E dto \in CreateEventRoomDTO : CreateEventRoomAsync(dto)) /\ UNCHANGED procs
List == (\E filterDto \in EventRoomFilterDTO : GetFilteredEventRoomsAsync(filterDto)) /\ UNCHANGED procs
Get == (\E e \in EventIds, r \in RoomIds : GetEventRoomAsync(e, r)) /\ UNCHANGED procs
Delete == (\E e \in EventIds, r \in RoomIds : DeleteEventRoomAsync(e, r)) /\ UNCHANGED procs
AddEvents == (\E e \in EventIds : AddEvent(e)) /\ UNCHANGED procs
RemoveEvents == (\E e \in EventIds : RemoveEvent(e)) /\ UNCHANGED procs
AddRooms == (\E r \in RoomIds : AddRoom(r)) /\ UNCHANGED procs
RemoveRooms == (\E r \in RoomIds : RemoveRoom(r)) /\ UNCHANGED procs

\* Service calls run one at a time: every call is one step. Spec: the calls
\* that read or write single records, with the owners of Event and Room
\* adding and removing records in between.
Next ==
    \/ Create
    \/ Get
    \/ Delete
    \/ AddEvents
    \/ RemoveEvents
    \/ AddRooms
    \/ RemoveRooms

Spec == Init /\ [][Next]_vars

\* SpecList: the listing call, with the other calls, over every content of
\* the EventRoom collection that create and delete build; the owners of
\* Event and Room add records.
NextList ==
    \/ Create
    \/ Get
    \/ Delete
    \/ List
    \/ AddEvents
    \/ AddRooms

SpecList == Init /\ [][NextList]_vars

CreateStarts ==
    (\E p \in Procs, dto \in CreateEventRoomDTO : CreateStart(p, dto)) /\ UNCHANGED <<last, prev>>
CreateFindEvents == (\E p \in Procs : CreateFindEvent(p)) /\ UNCHANGED <<last, prev>>
CreateFindRooms == (\E p \in Procs : CreateFindRoom(p)) /\ UNCHANGED <<last, prev>>
CreateFindDuplicates == (\E p \in Procs : CreateFindDuplicate(p)) /\ UNCHANGED <<last, prev>>
CreateAdds == (\E p \in Procs : CreateAdd(p)) /\ UNCHANGED <<last, prev>>
CreateSaves == (\E p \in Procs : CreateSave(p)) /\ UNCHANGED <<last, prev>>
CreateSavesPK == (\E p \in Procs : CreateSavePK(p)) /\ UNCHANGED <<last, prev>>
CreateRereads == (\E p \in Procs : CreateReread(p)) /\ UNCHANGED <<last, prev>>
Returns == (\E p \in Procs : Return(p)) /\ UNCHANGED <<last, prev>>
DeleteStarts ==
    (\E p \in Procs, e \in EventIds, r \in RoomIds : DeleteStart(p, e, r))
        /\ UNCHANGED <<last, prev>>
DeleteFinds == (\E p \in Procs : DeleteFind(p)) /\ UNCHANGED <<last, prev>>
DeleteRemoves == (\E p \in Procs : DeleteRemove(p)) /\ UNCHANGED <<last, prev>>
DeleteSaves == (\E p \in Procs : DeleteSave(p)) /\ UNCHANGED <<last, prev>>

\* SpecConc: two requests run create concurrently, one gateway call per step,
\* on a storage without uniqueness constraint; the owners add events and rooms.
NextConc ==
    \/ CreateStarts
    \/ CreateFindEvents
    \/ CreateFindRooms
    \/ CreateFindDuplicates
    \/ CreateAdds
    \/ CreateSaves
    \/ CreateRereads
    \/ Returns
    \/ AddEvents
    \/ AddRooms

SpecConc == Init /\ [][NextConc]_vars

\* SpecConcPK: the same, on a storage that enforces the composite primary key.
NextConcPK ==
    \/ CreateStarts
    \/ CreateFindEvents
    \/ CreateFindRooms
    \/ CreateFindDuplicates
    \/ CreateAdds
    \/ CreateSavesPK
    \/ CreateRereads
    \/ Returns
    \/ AddEvents
    \/ AddRooms

SpecConcPK == Init /\ [][NextConcPK]_vars

\* SpecConcDelete: two requests run create and delete concurrently, on a
\* storage that enforces the composite primary key.
NextConcDelete ==
    \/ CreateStarts
    \/ CreateFindEvents
    \/ CreateFindRooms
    \/ CreateFindDuplicates
    \/ CreateAdds
    \/ CreateSavesPK
    \/ CreateRereads
    \/ DeleteStarts
    \/ DeleteFinds
    \/ DeleteRemoves
    \/ DeleteSaves
    \/ Returns
    \/ AddEvents
    \/ AddRooms

SpecConcDelete == Init /\ [][NextConcDelete]_vars

\* listings are pure reads and do not affect one another: one is followed at
\* a time
ListStarts ==
    /\ \A q \in Procs : procs[q].pc = "idle"
    /\ \E p \in Procs, filterDto \in EventRoomFilterDTO : ListStart(p, filterDto)
    /\ UNCHANGED <<last, prev>>
ListCounts == (\E p \in Procs : ListCount(p)) /\ UNCHANGED <<last, prev>>
ListPages == (\E p \in Procs : ListPage(p)) /\ UNCHANGED <<last, prev>>
CreateCommits ==
    (\E dto \in CreateEventRoomDTO : CreateCommit(dto)) /\ UNCHANGED <<last, prev, procs>>
DeleteCommits ==
    (\E e \in EventIds, r \in RoomIds : DeleteCommit(e, r))
        /\ UNCHANGED <<last, prev, procs>>

\* SpecConcList: a request runs listFiltered, one gateway call per step,
\* while other requests' create and delete calls commit in between.
NextConcList ==
    \/ ListStarts
    \/ ListCounts
    \/ ListPages
    \/ Returns
    \/ CreateCommits
    \/ DeleteCommits
    \/ AddEvents
    \/ AddRooms

SpecConcList == Init /\ [][NextConcList]_vars

\* ---------------------------------------------------------------- properties
\* the records of store that link event e and room r
RecordsOf(store, e, r) == {er \in store : er.EventId = e /\ er.RoomId = r}

\* last is a call of operation op on the pair (e, r)
IsCall(c, op, e, r) == c.op = op /\ c.EventId = e /\ c.RoomId = r

\* C1: create(eventId, roomId) where the event or the room does not exist
\* fails with NotFound, and the association records after the call are the
\* records before it.
C1_CreateMissingNotFound ==
    (last.op = "create" /\ (last.EventId \notin events \/ last.RoomId \notin rooms))
        => (last.error = "NotFound" /\ eventRooms = last.before)

\* C1 witness: a create for an existing event and a missing room was made
\* while the collection held records.
C1_Witness ==
    /\ last.op = "create"
    /\ last.EventId \in events
    /\ last.RoomId \notin rooms
    /\ last.before # {}

\* C2: create on a pair already present (event and room existing) fails with
\* Conflict and leaves the collection, the existing record included, as it
\* was; a create made right after a successful create of the same pair fails
\* with Conflict.
C2_CreateDuplicateConflict ==
    /\ (/\ last.op = "create"
        /\ last.EventId \in events
        /\ last.RoomId \in rooms
        /\ RecordsOf(last.before, last.EventId, last.RoomId) # {})
           => (last.error = "Conflict" /\ eventRooms = last.before)
    /\ (/\ prev.op = "create"
        /\ prev.error = "None"
        /\ IsCall(last, "create", prev.EventId, prev.RoomId))
           => last.error = "Conflict"

\* C2 witness: create(E, R) succeeded and create(E, R) was called again.
C2_Witness ==
    /\ prev.op = "create"
    /\ prev.error = "None"
    /\ IsCall(last, "create", prev.EventId, prev.RoomId)
    /\ Cardinality(eventRooms) >= 2

\* C3: with calls running one at a time, every reachable state holds at most
\* one association record for any pair (eventId, roomId).
C3_PairUnique ==
    \A e \in EventIds, r \in RoomIds : Cardinality(RecordsOf(eventRooms, e, r)) <= 1

\* C3 witness: a create of a present pair was attempted while the collection
\* held several records.
C3_Witness ==
    /\ last.op = "create"
    /\ RecordsOf(last.before, last.EventId, last.RoomId) # {}
    /\ Cardinality(eventRooms) >= 2

\* C4: create on a pair whose event and room exist and that has no record
\* succeeds, leaves exactly one record for the pair and returns it; a get of
\* the pair issued next returns a record with the requested eventId and roomId.
C4_CreateThenGet ==
    /\ (/\ last.op = "create"
        /\ last.EventId \in events
        /\ last.RoomId \in rooms
        /\ RecordsOf(last.before, last.EventId, last.RoomId) = {})
           => /\ last.error = "None"
              /\ Cardinality(RecordsOf(eventRooms, last.EventId, last.RoomId)) = 1
              /\ last.dto.EventId = last.EventId
              /\ last.dto.RoomId = last.RoomId
    /\ (/\ prev.op = "create"
        /\ prev.error = "None"
        /\ IsCall(last, "get", prev.EventId, prev.RoomId))
           => /\ last.error = "None"
              /\ last.dto.EventId = prev.EventId
              /\ last.dto.RoomId = prev.RoomId
              /\ last.dto.Id \in Ids

\* C4 witness: a successful create of a fresh pair, then a get of that pair.
C4_Witness ==
    /\ prev.op = "create"
    /\ prev.error = "None"
    /\ IsCall(last, "get", prev.EventId, prev.RoomId)
    /\ Cardinality(eventRooms) >= 2

\* C5: a get(eventId, roomId) made right after a successful
\* delete(eventId, roomId) fails with NotFound.
C5_DeleteThenGetNotFound ==
    (/\ prev.op = "delete"
     /\ prev.error = "None"
     /\ IsCall(last, "get", prev.EventId, prev.RoomId))
        => last.error = "NotFound"

\* C5 witness: a successful delete, then a get of the same pair, with other
\* records still in the collection.
C5_Witness ==
    /\ prev.op = "delete"
    /\ prev.error = "None"
    /\ IsCall(last, "get", prev.EventId, prev.RoomId)
    /\ eventRooms # {}

\* C6: delete on a pair with no record fails with NotFound and leaves the
\* collection unchanged; a second delete right after a successful delete of
\* the same pair fails with NotFound.
C6_DeleteAbsentNotFound ==
    /\ (/\ last.op = "delete"
        /\ RecordsOf(last.before, last.EventId, last.RoomId) = {})
           => (last.error = "NotFound" /\ eventRooms = last.before)
    /\ (/\ prev.op = "delete"
        /\ prev.error = "None"
        /\ IsCall(last, "delete", prev.EventId, prev.RoomId))
           => (last.error = "NotFound" /\ eventRooms = last.before)

\* C6 witness: a successful delete, then a delete of the same pair.
C6_Witness ==
    /\ prev.op = "delete"
    /\ prev.error = "None"
    /\ IsCall(last, "delete", prev.EventId, prev.RoomId)
    /\ eventRooms # {}

\* C7: after create(E, R) and a successful delete(E, R), a create(E, R) on the
\* valid pair succeeds: the create made right after a successful delete of
\* its pair never reports Conflict and, the event and room existing, adds the
\* one record of the pair.
C7_RecreateAfterDelete ==
    (/\ prev.op = "delete"
     /\ prev.error = "None"
     /\ IsCall(last, "create", prev.EventId, prev.RoomId))
        => /\ last.error # "Conflict"
           /\ (last.EventId \in events /\ last.RoomId \in rooms)
                 => /\ last.error = "None"
                    /\ Cardinality(RecordsOf(eventRooms, last.EventId, last.RoomId)) = 1

\* C7 witness: a successful delete of a pair, then a successful create of it.
C7_Witness ==
    /\ prev.op = "delete"
    /\ prev.error = "None"
    /\ IsCall(last, "create", prev.EventId, prev.RoomId)
    /\ last.error = "None"

\* C8 as stated: in every reachable state every association record's eventId
\* identifies an existing event and its roomId an existing room.
C8_ReferentialIntegrity ==
    \A er \in eventRooms : er.EventId \in events /\ er.RoomId \in rooms

\* C8 amended: every association record references an existing event and an
\* existing room at the time a service call adds it (the records a call adds
\* reference an event and a room that exist when the call returns).
C8_IntegrityAtCreation ==
    last.op # "none" =>
        \A er \in eventRooms \ last.before :
            er.EventId \in events /\ er.RoomId \in rooms

\* C8 witness: a create has added a record while another record references
\* an event or room its owner has removed.
C8_Witness ==
    /\ last.op = "create"
    /\ eventRooms \ last.before # {}
    /\ \E er \in eventRooms : er.EventId \notin events \/ er.RoomId \notin rooms

\* the records of store a filter (eventId, roomId; NULL = unset) matches
Matching(store, eventId, roomId) ==
    {er \in store : /\ (eventId = NULL \/ er.EventId = eventId)
                    /\ (roomId = NULL \/ er.RoomId = roomId)}

\* k is the ceiling of a / n
IsCeiling(k, a, n) == k * n >= a /\ (k - 1) * n < a

\* C9: listFiltered with pageSize n >= 1 returns at most n items, totalCount
\* is the number of records matching the filter and totalPages is
\* ceil(totalCount / n); 25 matching records with pageSize 10 give 3 pages.
C9_PageSizeAndTotals ==
    /\ last.op = "list" =>
          /\ Len(last.page.Items) <= last.PageSize
          /\ last.page.TotalCount =
                Cardinality(Matching(last.before, last.EventId, last.RoomId))
          /\ IsCeiling(last.page.TotalPages, last.page.TotalCount, last.PageSize)
    /\ TotalPagesOf(25, 10) = 3

\* C9 witness: a listing of three matching records with pageSize 2 returned a
\* full first page.
C9_Witness ==
    /\ last.op = "list"
    /\ last.PageSize = 2
    /\ last.page.TotalCount = 3
    /\ Len(last.page.Items) = 2
    /\ last.page.TotalPages = 2

\* C10: listFiltered with eventId (or roomId) set to an identifier that has
\* no association, the identifier of a non-existent entity included, returns
\* normally with totalCount = 0, items = [], hasNextPage = false and
\* hasPreviousPage = (pageNumber > 1).
C10_EmptyFilterResult ==
    (/\ last.op = "list"
     /\ \/ (last.EventId # NULL /\ \A er \in last.before : er.EventId # last.EventId)
        \/ (last.RoomId # NULL /\ \A er \in last.before : er.RoomId # last.RoomId))
        => /\ last.error = "None"
           /\ last.page.TotalCount = 0
           /\ last.page.Items = <<>>
           /\ last.page.HasNextPage = FALSE
           /\ last.page.HasPreviousPage = (last.PageNumber > 1)

\* C10 witness: a listing of page 2 filtered by an event that does not exist,
\* with the room filter matching records of other events.
C10_Witness ==
    /\ last.op = "list"
    /\ last.EventId # NULL
    /\ last.EventId \notin events
    /\ last.RoomId # NULL
    /\ \E er \in last.before : er.RoomId = last.RoomId
    /\ last.PageNumber > 1

\* the filter of the call c, asking for page p
FilterOf(c, p) ==
    [EventId |-> c.EventId, RoomId |-> c.RoomId, PageNumber |-> p,
     PageSize |-> c.PageSize]

\* C11: listFiltered with pageNumber greater than totalPages does not fail:
\* it returns no item, with the totalCount and totalPages that every
\* in-range page of the same filter reports.
C11_PageBeyondLast ==
    (last.op = "list" /\ last.PageNumber > last.page.TotalPages)
        => /\ last.error = "None"
           /\ last.page.Items = <<>>
           /\ \A p \in 1..MaxPageNumber :
                 LET r == PaginatedResult(last.before, FilterOf(last, p))
                 IN  p <= r.TotalPages
                        => /\ r.TotalCount = last.page.TotalCount
                           /\ r.TotalPages = last.page.TotalPages

\* C11 witness: page 3 was asked of a listing that has two pages.
C11_Witness ==
    /\ last.op = "list"
    /\ last.PageNumber = 3
    /\ last.page.TotalPages = 2
    /\ last.page.TotalCount = 3

\* the Ids of the items of a page
ItemIds(page) == {page.Items[i].Id : i \in 1..Len(page.Items)}

\* C12: a record is counted and returned by listFiltered exactly when
\* (filter.eventId is unset or equals its eventId) and (filter.roomId is
\* unset or equals its roomId): the count is the number of such records,
\* every item is such a record, every such record is on some page, and with
\* both filters unset every record matches.
C12_MatchingPredicate ==
    last.op = "list" =>
        LET M == Matching(last.before, last.EventId, last.RoomId)
        IN  /\ last.page.TotalCount = Cardinality(M)
            /\ \A i \in 1..Len(last.page.Items) :
                  \E er \in M : /\ last.page.Items[i].Id = er.Id
                                /\ last.page.Items[i].EventId = er.EventId
                                /\ last.page.Items[i].RoomId = er.RoomId
            /\ \A er \in M :
                  \E p \in 1..Cardinality(last.before) :
                      er.Id \in ItemIds(PaginatedResult(last.before, FilterOf(last, p)))
            /\ (last.EventId = NULL /\ last.RoomId = NULL) => M = last.before

\* C12 witness: a listing filtered by event and room returned items while
\* the collection held another room's record of the same event.
C12_Witness ==
    /\ last.op = "list"
    /\ last.EventId # NULL
    /\ last.RoomId # NULL
    /\ last.page.Items # <<>>
    /\ \E er \in last.before : er.EventId = last.EventId /\ er.RoomId # last.RoomId

\* C15 as stated: get on a present pair returns the record of the composite
\* key with its Event and Room projections resolved; on an absent pair it
\* fails with NotFound("EventRoom").
C15_GetResolvesProjections ==
    last.op = "get" =>
        IF RecordsOf(last.before, last.EventId, last.RoomId) # {}
        THEN /\ last.error = "None"
             /\ last.dto.EventId = last.EventId
             /\ last.dto.RoomId = last.RoomId
             /\ last.dto.Event # NULL
             /\ last.dto.Room # NULL
        ELSE last.error = "NotFound" /\ last.resource = "EventRoom"

\* C16: get and listFiltered are pure reads: succeeding or failing, they
\* leave the association, Event and Room collections as they were.
C16_ReadsArePure ==
    last.op \in {"get", "list"}
        => /\ eventRooms = last.before
           /\ events = last.beforeEvents
           /\ rooms = last.beforeRooms

\* C16 witness: a get that found its record was made on a collection of
\* several records.
C16_Witness ==
    /\ last.op = "get"
    /\ last.error = "None"
    /\ Cardinality(last.before) >= 2

\* C17: create and delete, successful or failing, leave the Event and Room
\* collections unchanged, as does every association-service call.
C17_EventsRoomsUntouched ==
    last.op # "none"
        => (events = last.beforeEvents /\ rooms = last.beforeRooms)

\* C17 witness: a successful delete removed the last association of an
\* event that exists.
C17_Witness ==
    /\ last.op = "delete"
    /\ last.error = "None"
    /\ last.EventId \in last.beforeEvents
    /\ \A er \in eventRooms : er.EventId # last.EventId

\* C18: create validates in the order event, room, duplicate: an absent
\* event gives NotFound("Event") whatever the room and the pair; an existing
\* event and an absent room give NotFound("Room") whatever the pair;
\* Conflict is reported only when both exist and the pair is present.
C18_ValidationOrder ==
    last.op = "create" =>
        /\ last.EventId \notin events
              => (last.error = "NotFound" /\ last.resource = "Event")
        /\ (last.EventId \in events /\ last.RoomId \notin rooms)
              => (last.error = "NotFound" /\ last.resource = "Room")
        /\ last.error = "Conflict"
              => /\ last.EventId \in events
                 /\ last.RoomId \in rooms
                 /\ RecordsOf(last.before, last.EventId, last.RoomId) # {}

\* C18 witness: a create of a present pair whose event and room have both
\* been removed.
C18_Witness ==
    /\ last.op = "create"
    /\ last.EventId \notin events
    /\ last.RoomId \notin rooms
    /\ RecordsOf(last.before, last.EventId, last.RoomId) # {}

\* the number of records of M with an Id below id
Rank(M, id) == Cardinality({o \in M : o.Id < id})

\* C20: the items of page p are exactly the elements at positions
\* (p-1)*pageSize+1 .. min(p*pageSize, totalCount) of the matching records
\* in ascending order of surrogate identifier, whatever the order in which
\* the records were created.
C20_PageIsSortedSlice ==
    last.op = "list" =>
        LET M == Matching(last.before, last.EventId, last.RoomId)
            first == (last.PageNumber - 1) * last.PageSize + 1
            upto == IF last.PageNumber * last.PageSize < Cardinality(M)
                    THEN last.PageNumber * last.PageSize ELSE Cardinality(M)
            items == last.page.Items
        IN  /\ Len(items) = (IF upto >= first THEN upto - first + 1 ELSE 0)
            /\ \A i \in 1..Len(items) :
                  \E er \in M : /\ items[i].Id = er.Id
                                /\ items[i].EventId = er.EventId
                                /\ items[i].RoomId = er.RoomId
                                /\ Rank(M, er.Id) = first + i - 2

\* C20 witness: the record created by the call before the listing is the
\* first of two items: the page order is not the creation order.
C20_Witness ==
    /\ last.op = "list"
    /\ prev.op = "create"
    /\ Len(last.page.Items) = 2
    /\ last.page.Items[1].EventId = prev.EventId
    /\ last.page.Items[1].RoomId = prev.RoomId

\* the gateway calls p has made that are `entry`
Calls(p, entry) == {i \in 1..Len(procs[p].log) : procs[p].log[i] = entry}

\* p has committed its record
Wrote(p) == procs[p].Id # NoId

\* C13: with the service alone (no uniqueness constraint in storage), two
\* concurrent creates of the same valid, absent pair are not mutually
\* exclusive: a create that passed its duplicate check always writes its
\* record, whatever was written since; so when both checks observe the pair
\* absent before either writes, both calls write (C13_Witness).
C13_CheckedCreateWrites ==
    \A p \in Procs :
        /\ procs[p].pc \in {"add", "save"}
              => /\ procs[p].log[3] = "EventRoom:absent"
                 /\ procs[p].error = "None"
        /\ Calls(p, "SaveChangesAsync") # {}
              => /\ procs[p].error = "None"
                 /\ EventRoom(procs[p].Id, procs[p].EventId, procs[p].RoomId) \in eventRooms

\* C13 witness: both requests have succeeded in creating the same pair and
\* the collection holds two records of it.
C13_Witness ==
    /\ \A p \in Procs : procs[p].pc = "done" /\ procs[p].error = "None"
    /\ procs["p1"].EventId = procs["p2"].EventId
    /\ procs["p1"].RoomId = procs["p2"].RoomId
    /\ procs["p1"].Id # procs["p2"].Id
    /\ Cardinality(RecordsOf(eventRooms, procs["p1"].EventId, procs["p1"].RoomId)) = 2

\* C14: on a storage that rejects a commit creating a second record of a
\* pair, every pair has at most one record in every interleaving of
\* concurrent creates, and at most one of the concurrent creates of a pair
\* succeeds.
C14_ConstraintKeepsPairUnique ==
    /\ \A e \in EventIds, r \in RoomIds : Cardinality(RecordsOf(eventRooms, e, r)) <= 1
    /\ \A p, q \in Procs :
          (p # q /\ Wrote(p) /\ Wrote(q))
              => (procs[p].EventId # procs[q].EventId \/ procs[p].RoomId # procs[q].RoomId)
    /\ \A p \in Procs :
          (procs[p].pc = "done" /\ procs[p].error = "None") => Wrote(p)

\* C14 witness: two creates of one pair both passed the duplicate check; one
\* succeeded and the commit of the other was rejected.
C14_Witness ==
    \E p, q \in Procs :
        /\ procs[p].pc = "done" /\ procs[p].error = "None" /\ Wrote(p)
        /\ procs[q].pc = "done" /\ procs[q].error = "DbUpdate"
        /\ procs[q].log[3] = "EventRoom:absent"
        /\ procs[p].EventId = procs[q].EventId
        /\ procs[p].RoomId = procs[q].RoomId
        /\ Cardinality(RecordsOf(eventRooms, procs[p].EventId, procs[p].RoomId)) = 1

\* C19: in every execution of create, the add and the commit come only
\* after the event check, the room check and the duplicate check have all
\* passed, the add precedes the commit, a successful create has issued
\* exactly one add and one commit, and a create that fails validation has
\* issued none.
C19_WriteAfterValidation ==
    \A p \in Procs :
        LET log == procs[p].log
        IN  /\ \A i \in Calls(p, "AddAsync") :
                  /\ i = 4
                  /\ log[1] = "Event:found"
                  /\ log[2] = "Room:found"
                  /\ log[3] = "EventRoom:absent"
            /\ \A i \in Calls(p, "SaveChangesAsync") : i = 5 /\ log[4] = "AddAsync"
            /\ (procs[p].pc = "done" /\ procs[p].error = "None")
                  => /\ Cardinality(Calls(p, "AddAsync")) = 1
                     /\ Cardinality(Calls(p, "SaveChangesAsync")) = 1
            /\ procs[p].error \in {"NotFound", "Conflict"}
                  => /\ Calls(p, "AddAsync") = {}
                     /\ Calls(p, "SaveChangesAsync") = {}

\* C19 witness: one create has succeeded and another has failed on the
\* duplicate check.
C19_Witness ==
    \E p, q \in Procs :
        /\ procs[p].pc = "done" /\ procs[p].error = "None"
        /\ Len(procs[p].log) = 6
        /\ procs[q].pc = "done" /\ procs[q].error = "Conflict"
        /\ Len(procs[q].log) = 3

\* C21: in every listFiltered result hasPreviousPage is true exactly when
\* pageNumber > 1, hasNextPage exactly when pageNumber < totalPages (there
\* are matching records after this page), and pageIndex and pageSize echo
\* the request.
C21_PageFlags ==
    last.op = "list" =>
        /\ last.page.HasPreviousPage = (last.PageNumber > 1)
        /\ last.page.HasNextPage = (last.PageNumber < last.page.TotalPages)
        /\ last.page.HasNextPage =
              (last.PageNumber * last.PageSize
                  < Cardinality(Matching(last.before, last.EventId, last.RoomId)))
        /\ last.page.PageIndex = last.PageNumber
        /\ last.page.PageSize = last.PageSize

\* C21 witness: the last page of three was listed: it has a previous page
\* and no next page.
C21_Witness ==
    /\ last.op = "list"
    /\ last.PageNumber = 3
    /\ last.page.TotalPages = 3
    /\ last.page.HasPreviousPage
    /\ ~last.page.HasNextPage

\* C22: the association collection changes only by a successful
\* create(e,r), which adds exactly one record of (e,r), or a successful
\* delete(e,r), which removes the record of (e,r); in every step the records
\* of all other pairs stay, and a record present before and after keeps its
\* eventId, roomId and surrogate identifier.
C22_OnlyCreateAndDeleteChange ==
    [][/\ \A a \in eventRooms, b \in eventRooms' : a.Id = b.Id => a = b
       /\ \/ eventRooms' = eventRooms
          \/ /\ last'.op = "create"
             /\ last'.error = "None"
             /\ \E er \in eventRooms' \ eventRooms :
                   /\ er.EventId = last'.EventId
                   /\ er.RoomId = last'.RoomId
                   /\ eventRooms' = eventRooms \cup {er}
          \/ /\ last'.op = "delete"
             /\ last'.error = "None"
             /\ RecordsOf(eventRooms, last'.EventId, last'.RoomId) # {}
             /\ eventRooms' = eventRooms \ RecordsOf(eventRooms, last'.EventId,
                                                     last'.RoomId)]_vars

\* C22 witness: a successful delete removed one record and left the
\* record of another pair of the same event in place.
C22_Witness ==
    /\ last.op = "delete"
    /\ last.error = "None"
    /\ Cardinality(last.before) = Cardinality(eventRooms) + 1
    /\ \E er \in eventRooms : er.EventId = last.EventId /\ er.RoomId # last.RoomId

\* the items of pages 1..n of the listing of store, one after the other
RECURSIVE PagesUpTo(_, _, _)
PagesUpTo(store, c, n) ==
    IF n = 0 THEN <<>>
    ELSE PagesUpTo(store, c, n - 1) \o PaginatedResult(store, FilterOf(c, n)).Items

\* C26: for a fixed store content and filter, the items of pages
\* 1..totalPages one after the other are every matching record exactly once;
\* every page before the last holds pageSize items and the last page holds
\* totalCount - (totalPages-1)*pageSize items.
C26_PagesPartitionMatching ==
    last.op = "list" =>
        LET M == Matching(last.before, last.EventId, last.RoomId)
            total == last.page.TotalCount
            pages == last.page.TotalPages
            all == PagesUpTo(last.before, last, pages)
        IN  /\ Len(all) = Cardinality(M)
            /\ {all[i].Id : i \in 1..Len(all)} = {er.Id : er \in M}
            /\ \A p \in 1..pages :
                  Len(PaginatedResult(last.before, FilterOf(last, p)).Items)
                      = (IF p < pages THEN last.PageSize
                         ELSE total - (pages - 1) * last.PageSize)

\* C26 witness: a listing of three matching records in pages of two: a full
\* page and a last page of one item.
C26_Witness ==
    /\ last.op = "list"
    /\ last.PageSize = 2
    /\ last.page.TotalCount = 3
    /\ last.page.TotalPages = 2

\* C23 as stated: every create that returns successfully returns an actual
\* record, never an absent value, with the eventId and roomId asked for, in
\* every interleaving with concurrent deletes of the same pair.
C23_CreateReturnsRecord ==
    \A p \in Procs :
        (procs[p].op = "create" /\ procs[p].pc = "done" /\ procs[p].error = "None")
            => /\ procs[p].dto # NullDTO
               /\ procs[p].dto.EventId = procs[p].EventId
               /\ procs[p].dto.RoomId = procs[p].RoomId

\* the calls of p and q were in progress at the same time
Overlap(p, q) == p \in procs[q].with \/ q \in procs[p].with

\* C24 as stated: when two deletes of the same present pair interleave, at
\* most one returns success and the other fails with NotFound; a delete
\* never reports success without having removed a record.
C24_InterleavedDeletes ==
    /\ \A p \in Procs :
          (procs[p].op = "delete" /\ procs[p].pc = "done" /\ procs[p].error = "None")
              => procs[p].removed >= 1
    /\ \A p, q \in Procs :
          (/\ p # q /\ Overlap(p, q)
           /\ procs[p].op = "delete" /\ procs[p].pc = "done"
           /\ procs[q].op = "delete" /\ procs[q].pc = "done"
           /\ procs[p].EventId = procs[q].EventId
           /\ procs[p].RoomId = procs[q].RoomId
           /\ procs[p].error = "None")
              => procs[q].error = "NotFound"

\* C25 as stated: every listFiltered result is consistent even when creates
\* or deletes come between its count query and its page query: the items
\* are never more than totalCount, and items is non-empty whenever
\* 1 <= pageNumber <= totalPages.
C25_ListConsistent ==
    \A p \in Procs :
        (procs[p].op = "list" /\ procs[p].pc = "done")
            => /\ Len(procs[p].page.Items) <= procs[p].page.TotalCount
               /\ (1 <= procs[p].PageNumber /\ procs[p].PageNumber <= procs[p].page.TotalPages)
                     => procs[p].page.Items # <<>>

====
